---- MODULE Spec2Model ----
(***************************************************************************)
(* Content pipeline of the static site generator: the content-addressed    *)
(* asset store of SiteBuilder (src/src/main.rs) and the two lazy token     *)
(* stream stages of PostBuilder::build (src/src/post.rs),                  *)
(* CodeImageProcessor and MathProcessor.                                   *)
(*                                                                         *)
(* A Rust String / Vec<u8> / path is a sequence of chunks (short strings   *)
(* or bytes); concatenation is \o.  A line feed is always a chunk of its   *)
(* own.  An Option is None or Some(v).                                     *)
(***************************************************************************)
EXTENDS Integers, Sequences, FiniteSets, TLC

VARIABLES
    file,       \* the post's source file: None (cannot be opened/read) or Some(events the parser yields)
    dir,        \* PostBuilder.dir
    hasher,     \* std::hash::DefaultHasher as a function of the bytes written to it
    pc,         \* position of the program
    iter,       \* CodeImageProcessor.iter: the upstream events not pulled yet
    buffer,     \* CodeImageProcessor.buffer
    meta,       \* PostBuilder.meta
    assets,     \* SiteBuilder.assets: hash -> (bytes, extension)
    steps,      \* history: one record per call of CodeImageProcessor::next
    msteps,     \* history: one record per call of MathProcessor::next
    effects,    \* history: calls of resolve_file and store_asset, in order
    post,       \* what PostBuilder::build returned
    written,    \* the output files written under assets/ by build_pages
    entries,    \* the listing of the posts directory; taken marks what the loop of build_posts has passed
    posts       \* SiteBuilder.posts

vars == <<file, dir, hasher, pc, iter, buffer, meta, assets, steps, msteps, effects, post, written,
          entries, posts>>

\* ---------------------------------------------------------------- bounds
MaxLen == 4         \* longest upstream event stream
MaxCalls == 3       \* most store_asset calls of a bare asset-store run
HashSpace == 2      \* number of distinct hash values the model tells apart
MaxEntries == 2     \* most entries of the posts directory
MaxSiteLen == 2     \* longest event stream of a post of a site of several posts

\* ---------------------------------------------------------------- options
None == [some |-> FALSE]
Some(v) == [some |-> TRUE, val |-> v]

Range(s) == {s[i] : i \in 1..Len(s)}

\* the value of a set of one element; Only({F(v) : v \in {x}}) is F(x) with
\* x evaluated once, as `let v = x;` followed by F(v)
Only(s) == CHOOSE y \in s : TRUE

\* ---------------------------------------------------------------- events
\* cmark::Event.  id is the event's position in the upstream stream (0 for
\* an event a stage made); lo..hi is the span of upstream positions an
\* event stands for.  a is the event's string (text, math source, language,
\* dest_url, html).
Event(ev, tag, a, id) == [ev |-> ev, tag |-> tag, a |-> a, id |-> id, lo |-> id, hi |-> id]
Html(h, lo, hi) == [ev |-> "Html", tag |-> "", a |-> h, id |-> 0, lo |-> lo, hi |-> hi]
EndTag(tag, e) == [ev |-> "End", tag |-> tag, a |-> <<>>, id |-> e.id, lo |-> e.lo, hi |-> e.hi]

IsStart(e, tag) == e.ev = "Start" /\ e.tag = tag
IsEnd(e, tag) == e.ev = "End" /\ e.tag = tag

\* ---------------------------------------------------------------- strings
\* str::trim_end: drop the trailing white-space chunks.
RECURSIVE trim_end(_)
trim_end(s) ==
    IF s # <<>> /\ s[Len(s)] \in {"\n", " "} THEN trim_end(SubSeq(s, 1, Len(s) - 1)) ELSE s

\* str::replace('\n', "\n<a-lf></a-lf>")
RECURSIVE replace_lf(_)
replace_lf(s) ==
    IF s = <<>> THEN <<>>
    ELSE (IF Head(s) = "\n" THEN <<"\n", "<a-lf></a-lf>">> ELSE <<Head(s)>>) \o replace_lf(Tail(s))

HexDigits == <<"0", "1", "2", "3", "4", "5", "6", "7", "8", "9", "a", "b", "c", "d", "e", "f">>

\* format!("{:0width$x}", n)
RECURSIVE ToHex(_, _)
ToHex(n, width) ==
    IF width = 0 /\ n = 0 THEN <<>>
    ELSE ToHex(n \div 16, IF width = 0 THEN 0 ELSE width - 1) \o <<HexDigits[(n % 16) + 1]>>

\* the lines of a text: the chunks between line feeds
RECURSIVE Lines(_, _)
Lines(s, cur) ==
    IF s = <<>> THEN (IF cur = <<>> THEN <<>> ELSE <<cur>>)
    ELSE IF Head(s) = "\n" THEN <<cur>> \o Lines(Tail(s), <<>>)
    ELSE Lines(Tail(s), Append(cur, Head(s)))

\* ---------------------------------------------------------------- asset store
HashWidth == 16     \* hex digits of a hash in an asset path
IdHashMask == 65536 \* the svg id prefix keeps the low 16 bits of the hash

\* SiteBuilder::asset_path
asset_path(hash, ext) == <<"assets/">> \o ToHex(hash, HashWidth) \o <<".">> \o ext

\* a second entry for the same hash replaces the first
store_asset_overwrite(store, h, asset, ext) ==
    LET hash == h[asset]
        st == [k \in DOMAIN store \cup {hash} |->
                  IF k = hash THEN [asset |-> asset, ext |-> ext] ELSE store[k]]
    IN  [assets |-> st, path |-> asset_path(hash, st[hash].ext)]

\* the path is built from the extension of the call, not of the entry
store_asset_ext(store, h, asset, ext) ==
    LET hash == h[asset]
        st == IF hash \in DOMAIN store THEN store
              ELSE [k \in DOMAIN store \cup {hash} |->
                       IF k = hash THEN [asset |-> asset, ext |-> ext] ELSE store[k]]
    IN  [assets |-> st, path |-> asset_path(hash, ext)]

\* SiteBuilder::store_asset: the new store and the returned path
store_asset(store, h, asset, ext) ==
    LET hash == h[asset]
        st == IF hash \in DOMAIN store THEN store
              ELSE [k \in DOMAIN store \cup {hash} |->
                       IF k = hash THEN [asset |-> asset, ext |-> ext] ELSE store[k]]
    IN  [assets |-> st, path |-> asset_path(hash, st[hash].ext)]

\* ---------------------------------------------------------------- the post's surroundings
PostDir == <<"posts", "/", "p">>            \* the directory of a directory-backed post
CreatedDate == <<"1970-01-01T00:00:00Z">>   \* the file creation time get_default_date reads

\* Path::join of a relative path
join(d, path) == d \o <<"/">> \o path

\* The files beside index.md.  A raster file decodes to pixels (or fails),
\* and its pixels encode to WebP bytes only at 8 bits per channel; an svg
\* file may be unreadable as UTF-8, may fail to parse and may fail to clean.
NoFile == [is_file |-> FALSE]
FileAt(path) ==
    CASE path = join(PostDir, <<"a", ".", "png">>) ->
             [is_file |-> TRUE, decode |-> Some([pixels |-> <<"px1">>, depth |-> 8])]
      [] path = join(PostDir, <<"c", ".", "jpg">>) ->
             [is_file |-> TRUE, decode |-> Some([pixels |-> <<"px1">>, depth |-> 8])]
      [] path = join(PostDir, <<"d", ".", "png">>) ->
             [is_file |-> TRUE, decode |-> Some([pixels |-> <<"px2">>, depth |-> 8])]
      [] path = join(PostDir, <<"hdr", ".", "png">>) ->
             [is_file |-> TRUE, decode |-> Some([pixels |-> <<"px3">>, depth |-> 16])]
      [] path = join(PostDir, <<"bad", ".", "png">>) ->
             [is_file |-> TRUE, decode |-> None]
      [] path = join(PostDir, <<"b", ".", "svg">>) ->
             [is_file |-> TRUE, read |-> Some(<<"<svg>", "a", "</svg>">>),
              parses |-> TRUE, cleans |-> TRUE, ids |-> <<"a">>]
      [] path = join(PostDir, <<"e", ".", "svg">>) ->
             [is_file |-> TRUE, read |-> Some(<<"<svg>", "a", "b", "</svg>">>),
              parses |-> TRUE, cleans |-> TRUE, ids |-> <<"a", "b">>]
      [] path = join(PostDir, <<"noroot", ".", "svg">>) ->
             [is_file |-> TRUE, read |-> Some(<<"<g>", "</g>">>),
              parses |-> TRUE, cleans |-> FALSE, ids |-> <<>>]
      [] path = join(PostDir, <<"raw", ".", "svg">>) ->
             [is_file |-> TRUE, read |-> Some(<<"<svg">>),
              parses |-> FALSE, cleans |-> FALSE, ids |-> <<>>]
      [] path = join(PostDir, <<"bin", ".", "svg">>) ->
             [is_file |-> TRUE, read |-> None]
      [] OTHER -> NoFile

\* Path::extension
extension(path) ==
    IF Len(path) >= 3 /\ path[Len(path) - 1] = "." THEN Some(path[Len(path)]) ELSE None

\* image::open
image_open(path) == FileAt(path).decode

\* DynamicImage::write_with_encoder(WebPEncoder::new_lossless(..)): the bytes, or an error
write_with_encoder(im) ==
    IF im.depth = 8 THEN Some(<<"RIFF", "WEBP">> \o im.pixels) ELSE None

\* every byte string the model hashes
Blobs ==
    {<<"RIFF", "WEBP", "px1">>, <<"RIFF", "WEBP", "px2">>, <<"raw">>}
    \cup {<<"<svg>", "a", "</svg>", "\\xff">>, <<"<svg>", "a", "b", "</svg>", "\\xff">>}

\* url::Url::parse: "Ok", or the name of the ParseError
url_parse(u) ==
    IF Len(u) >= 2 /\ u[2] = "://"
    THEN (IF Len(u) = 2 THEN "EmptyHost"
          ELSE IF u[3] = "[" THEN "InvalidIpv6Address"
          ELSE "Ok")
    ELSE "RelativeUrlWithoutBase"

\* arborium::Highlighter::highlight: Ok(html), or an error
highlight(language, source) ==
    IF language = <<"rust">> THEN [ok |-> TRUE, html |-> <<"<a-k>">> \o source \o <<"</a-k>">>]
    ELSE IF language = <<"sql">> THEN [ok |-> FALSE, err |-> "ParseError"]
    ELSE [ok |-> FALSE, err |-> "UnsupportedLanguage"]

\* latex::push_mathml over the inspected parser: the MathML, or an error
push_mathml(math, display_mode) ==
    IF "\\bad" \in Range(math) THEN None
    ELSE Some(<<"<math display=\"", display_mode, "\">">> \o math \o <<"</math>">>)

\* ---------------------------------------------------------------- metadata
\* One key/value line of the metadata block, as the TOML parser reads it.
TomlKey(chunk) ==
    CASE chunk = "title = 'T'" -> Some([key |-> "title", val |-> <<"T">>])
      [] chunk = "title = 'U'" -> Some([key |-> "title", val |-> <<"U">>])
      [] chunk = "date = 2024-01-02T03:04:05Z" -> Some([key |-> "date", val |-> <<"2024-01-02T03:04:05Z">>])
      [] chunk = "tags = ['x', 'y']" -> Some([key |-> "tags", val |-> <<"x", "y">>])
      [] chunk = "ghcommentid = 7" -> Some([key |-> "ghcommentid", val |-> <<"7">>])
      [] chunk = "ghcommentauthors = ['a']" -> Some([key |-> "ghcommentauthors", val |-> <<"a">>])
      [] chunk = "draft = true" -> Some([key |-> "draft", val |-> <<"true">>])
      [] OTHER -> None

\* toml::from_str::<PostMetaIncomplete>: a line is blank or one key/value
\* pair, no key is given twice, a key that is no field is ignored.
toml_from_str(source) ==
    LET ls == Lines(source, <<>>)
        full == {i \in 1..Len(ls) : ls[i] # <<>>}
        wellformed == \A i \in full : Len(ls[i]) = 1 /\ TomlKey(ls[i][1]).some
        kv(i) == TomlKey(ls[i][1]).val
        field(k) == IF \E i \in full : kv(i).key = k
                    THEN Some(kv(CHOOSE i \in full : kv(i).key = k).val)
                    ELSE None
    IN  IF wellformed /\ \A i, j \in full : kv(i).key = kv(j).key => i = j
        THEN Some([title |-> field("title"), date |-> field("date"), tags |-> field("tags"),
                   ghcommentid |-> field("ghcommentid"),
                   ghcommentauthors |-> field("ghcommentauthors")])
        ELSE None

\* Path::file_name: the chunks after the last separator
RECURSIVE file_name(_)
file_name(path) ==
    IF \E i \in 1..Len(path) : path[i] = "/" THEN file_name(Tail(path)) ELSE path

\* the suffix is kept
trim_md_keep(n) == n

\* str::trim_end_matches(".md")
RECURSIVE trim_md(_)
trim_md(n) ==
    IF Len(n) >= 2 /\ n[Len(n) - 1] = "." /\ n[Len(n)] = "md"
    THEN trim_md(SubSeq(n, 1, Len(n) - 2)) ELSE n

\* the path of the post's source file
PostFile(d) == IF d.some THEN join(d.val, <<"index", ".", "md">>) ELSE <<"posts", "/", "q", ".", "md">>

\* PostBuilder::get_file_name
get_file_name(d) == IF d.some THEN file_name(d.val) ELSE trim_md(file_name(PostFile(d)))

\* PostBuilder::get_default_title
get_default_title(d) == get_file_name(d)

\* PostBuilder::get_default_date
get_default_date == CreatedDate

\* Some as soon as one of the two is Some
zip_either(a, b) ==
    IF a.some \/ b.some
    THEN Some(<<IF a.some THEN a.val ELSE <<>>, IF b.some THEN b.val ELSE <<>>>>)
    ELSE None

\* Option::zip
zip(a, b) == IF a.some /\ b.some THEN Some(<<a.val, b.val>>) ELSE None

\* the PostMeta built from a parsed block
PostMeta(meta_raw, d) ==
    [title |-> IF meta_raw.title.some THEN meta_raw.title.val ELSE get_default_title(d),
     date |-> IF meta_raw.date.some THEN meta_raw.date.val ELSE get_default_date,
     tags |-> IF meta_raw.tags.some THEN meta_raw.tags.val ELSE <<>>,
     ghcomment |-> zip(meta_raw.ghcommentid, meta_raw.ghcommentauthors)]

\* PostBuilder::default_metadata
default_metadata(d) ==
    [title |-> get_default_title(d), date |-> get_default_date, tags |-> <<>>, ghcomment |-> None]

\* PostBuilder::resolve_file
resolve_file(d, path) ==
    IF ~d.some THEN None
    ELSE IF FileAt(join(d.val, path)).is_file THEN Some(join(d.val, path)) ELSE None

\* ---------------------------------------------------------------- CodeImageProcessor
\* The operators below work on a record S of what the stage owns or borrows:
\* iter, buffer, the post's meta, the site's assets, the effects history, and
\* ret, the Option<Event> the call returns.  A step of a function that goes
\* on with a value it has just computed is an operator of its own, taking
\* the value as an argument.

\* the offending event is not kept for the replay
accumulate_drop(it, buf, text, tag) ==
    LET RECURSIVE loop(_, _, _)
        loop(i, b, t) ==
            IF i = <<>> THEN [iter |-> i, buffer |-> b, text |-> None]
            ELSE IF IsEnd(Head(i), tag)
                 THEN [iter |-> Tail(i), buffer |-> Append(b, Head(i)), text |-> Some(t)]
            ELSE IF Head(i).ev = "InlineMath"
                 THEN loop(Tail(i), Append(b, Head(i)), t \o <<"$">> \o Head(i).a \o <<"$">>)
            ELSE IF Head(i).ev = "Text" THEN loop(Tail(i), Append(b, Head(i)), t \o Head(i).a)
            ELSE [iter |-> Tail(i), buffer |-> b, text |-> None]
    IN  loop(it, buf, text)

RECURSIVE accumulate_loop(_, _, _, _)

\* the buffer is emptied when upstream ends before the end marker
accumulate_loop_forget(it, buf, text, tag) ==
    IF it = <<>> THEN [iter |-> it, buffer |-> <<>>, text |-> None]
    ELSE IF IsEnd(Head(it), tag)
         THEN [iter |-> Tail(it), buffer |-> Append(buf, Head(it)), text |-> Some(text)]
    ELSE IF Head(it).ev = "InlineMath"
         THEN accumulate_loop(Tail(it), Append(buf, Head(it)),
                              text \o <<"$">> \o Head(it).a \o <<"$">>, tag)
    ELSE IF Head(it).ev = "Text"
         THEN accumulate_loop(Tail(it), Append(buf, Head(it)), text \o Head(it).a, tag)
    ELSE [iter |-> Tail(it), buffer |-> Append(buf, Head(it)), text |-> None]

\* the loop of accumulate_plain_text: pull, push_back the clone, match
accumulate_loop(it, buf, text, tag) ==
    IF it = <<>> THEN [iter |-> it, buffer |-> buf, text |-> None]
    ELSE IF IsEnd(Head(it), tag)
         THEN [iter |-> Tail(it), buffer |-> Append(buf, Head(it)), text |-> Some(text)]
    ELSE IF Head(it).ev = "InlineMath"
         THEN accumulate_loop(Tail(it), Append(buf, Head(it)),
                              text \o <<"$">> \o Head(it).a \o <<"$">>, tag)
    ELSE IF Head(it).ev = "Text"
         THEN accumulate_loop(Tail(it), Append(buf, Head(it)), text \o Head(it).a, tag)
    ELSE [iter |-> Tail(it), buffer |-> Append(buf, Head(it)), text |-> None]

\* S with the iter and the buffer the loop left, and the text
accumulated(S, acc) ==
    [S |-> [S EXCEPT !.iter = acc.iter, !.buffer = acc.buffer], text |-> acc.text]

\* CodeImageProcessor::accumulate_plain_text: S after the call, and the text
accumulate_plain_text(S, tag) == accumulated(S, accumulate_loop(S.iter, S.buffer, <<>>, tag))

\* return Some(event)
passthrough(S, event) == [S EXCEPT !.ret = Some(event)]

\* the End(Image) event is left in the buffer
figure_buffer_keep_end(buf, body, lo, hi) ==
    <<Html(body, lo, hi), Html(<<"<figcaption>">>, lo, hi)>>
    \o buf
    \o <<Html(<<"</figcaption></figure>">>, lo, hi)>>

\* the alt events are dropped from the buffer
figure_buffer_drop_alt(buf, body, lo, hi) ==
    <<Html(body, lo, hi), Html(<<"<figcaption>">>, lo, hi),
      Html(<<"</figcaption></figure>">>, lo, hi)>>

\* the buffer after an image is embedded: the End(Image) popped, the closing
\* tags pushed to the back, <figcaption> and then the markup to the front;
\* the alt events stay in between
figure_buffer(buf, body, lo, hi) ==
    <<Html(body, lo, hi), Html(<<"<figcaption>">>, lo, hi)>>
    \o SubSeq(buf, 1, Len(buf) - 1)
    \o <<Html(<<"</figcaption></figure>">>, lo, hi)>>

\* S once an image is embedded with the markup `body`; returns <figure>
embedded(S, body, event) ==
    [S EXCEPT !.buffer = figure_buffer(@, body, event.lo, S.buffer[Len(S.buffer)].hi),
              !.ret = Some(Html(<<"<figure>">>, event.lo, S.buffer[Len(S.buffer)].hi))]

\* the element ids of a cleaned svg, each prefixed with the 4 digit hash
RECURSIVE prefixed_ids(_, _)
prefixed_ids(ids, hash) ==
    IF ids = <<>> THEN <<>>
    ELSE <<"<g id=\"">> \o ToHex(hash, 4) \o <<"-", Head(ids), "\"/>">> \o prefixed_ids(Tail(ids), hash)

\* the markup handle_svg_image inlines for a readable svg file
svg_cleaned(f, alt, h) ==
    IF f.parses /\ f.cleans
    THEN <<"<svg role=\"img\">", "<title>">> \o alt \o <<"</title>">>
         \o prefixed_ids(f.ids, h[f.read.val \o <<"\\xff">>] % IdHashMask) \o <<"</svg>">>
    ELSE f.read.val

\* a cleaned svg is stored as an asset besides being inlined
svg_image_store(S, f, alt, event, h) ==
    IF ~f.read.some THEN passthrough(S, event)
    ELSE IF f.parses /\ f.cleans
    THEN embedded([S EXCEPT !.assets = store_asset(@, h, f.read.val \o <<"\\xff">>, <<"svg">>).assets],
                  svg_cleaned(f, alt, h), event)
    ELSE embedded(S, svg_cleaned(f, alt, h), event)

\* handle_svg_image, given the file at the path
svg_image(S, f, alt, event, h) ==
    IF ~f.read.some THEN passthrough(S, event)
    ELSE embedded(S, svg_cleaned(f, alt, h), event)

\* CodeImageProcessor::handle_svg_image
handle_svg_image(S, path, alt, event, h) ==
    Only({svg_image(S, f, alt, event, h) : f \in {FileAt(path)}})

\* handle_raster_image, after store_asset returned st for the bytes
raster_stored(S, st, bytes, alt, event) ==
    embedded([S EXCEPT !.assets = st.assets,
                       !.effects = Append(@, [op |-> "store_asset", asset |-> bytes,
                                              ext |-> <<"webp">>, path |-> st.path])],
             <<"<img src=\"">> \o (<<"/">> \o st.path) \o <<"\" alt=\"">> \o alt \o <<"\">">>,
             event)

\* an asset is stored although the encoder failed
raster_encoded_store(S, enc, alt, event, h) ==
    IF ~enc.some
    THEN passthrough([S EXCEPT !.assets = store_asset(@, h, <<"raw">>, <<"webp">>).assets], event)
    ELSE Only({raster_stored(S, st, enc.val, alt, event) : st \in {store_asset(S.assets, h, enc.val, <<"webp">>)}})

\* handle_raster_image, after write_with_encoder returned enc
raster_encoded(S, enc, alt, event, h) ==
    IF ~enc.some THEN passthrough(S, event)
    ELSE Only({raster_stored(S, st, enc.val, alt, event) : st \in {store_asset(S.assets, h, enc.val, <<"webp">>)}})

\* handle_raster_image, after image::open returned im
raster_opened(S, im, alt, event, h) ==
    IF ~im.some THEN passthrough(S, event)
    ELSE Only({raster_encoded(S, enc, alt, event, h) : enc \in {write_with_encoder(im.val)}})

\* CodeImageProcessor::handle_raster_image
handle_raster_image(S, path, alt, event, h) ==
    Only({raster_opened(S, im, alt, event, h) : im \in {image_open(path)}})

\* the buffer is cleared before the highlighter's result is known
code_highlighted_clear(S, res, event) ==
    IF res.ok
    THEN [S EXCEPT !.buffer = <<Html(<<"<a-lf></a-lf>">> \o replace_lf(res.html),
                                     event.lo, S.buffer[Len(S.buffer)].hi),
                                EndTag("CodeBlock", S.buffer[Len(S.buffer)])>>,
                   !.ret = Some(event)]
    ELSE [S EXCEPT !.buffer = <<>>, !.ret = Some(event)]

\* a highlighted code block leaves default metadata in the meta slot
code_highlighted_meta(S, res, event) ==
    IF res.ok
    THEN [S EXCEPT !.buffer = <<Html(<<"<a-lf></a-lf>">> \o replace_lf(res.html),
                                     event.lo, S.buffer[Len(S.buffer)].hi),
                                EndTag("CodeBlock", S.buffer[Len(S.buffer)])>>,
                   !.meta = Some(default_metadata(None)),
                   !.ret = Some(event)]
    ELSE passthrough(S, event)

\* next, code block arm, after the highlighter returned res
code_highlighted(S, res, event) ==
    IF res.ok
    THEN [S EXCEPT !.buffer = <<Html(<<"<a-lf></a-lf>">> \o replace_lf(res.html),
                                     event.lo, S.buffer[Len(S.buffer)].hi),
                                EndTag("CodeBlock", S.buffer[Len(S.buffer)])>>,
                   !.ret = Some(event)]
    ELSE passthrough(S, event)

\* next, code block arm, after accumulate_plain_text returned acc
code_accumulated(acc, event) ==
    IF ~acc.text.some THEN passthrough(acc.S, event)
    ELSE code_highlighted(acc.S, highlight(event.a, trim_end(acc.text.val)), event)

\* next, Start(CodeBlock(Fenced(language))) arm
next_code(S0, event) ==
    Only({code_accumulated(acc, event) : acc \in {accumulate_plain_text(S0, "CodeBlock")}})

\* S with a call of resolve_file in the history
resolving(S, url) == [S EXCEPT !.effects = Append(@, [op |-> "resolve_file", path |-> url])]

\* next, image arm, after resolve_file returned path
image_resolved(R, path, alt, event, h) ==
    IF ~path.some THEN passthrough(R, event)
    ELSE IF extension(path.val) = Some("svg") THEN handle_svg_image(R, path.val, alt, event, h)
    ELSE handle_raster_image(R, path.val, alt, event, h)

\* every URL is taken for a relative one
image_accumulated_noparse(acc, event, d, h) ==
    IF ~acc.text.some THEN passthrough(acc.S, event)
    ELSE Only({image_resolved(resolving(acc.S, event.a), path, acc.text.val, event, h) : path \in {resolve_file(d, event.a)}})

\* next, image arm, after accumulate_plain_text returned acc
image_accumulated(acc, event, d, h) ==
    IF ~acc.text.some THEN passthrough(acc.S, event)
    ELSE IF url_parse(event.a) # "RelativeUrlWithoutBase" THEN passthrough(acc.S, event)
    ELSE Only({image_resolved(resolving(acc.S, event.a), path, acc.text.val, event, h) : path \in {resolve_file(d, event.a)}})

\* next, Start(Image { dest_url, .. }) arm
next_image(S0, event, d, h) ==
    Only({image_accumulated(acc, event, d, h) : acc \in {accumulate_plain_text(S0, "Image")}})

\* the buffer is not cleared after the metadata is stored
meta_parsed_keep(S, meta_raw, event, d) ==
    IF ~meta_raw.some THEN passthrough(S, event)
    ELSE [S EXCEPT !.meta = Some(PostMeta(meta_raw.val, d)),
                   !.iter = IF S.iter = <<>> THEN <<>> ELSE Tail(S.iter),
                   !.ret = IF S.iter = <<>> THEN None ELSE Some(Head(S.iter))]

\* next, metadata arm, after toml::from_str returned meta_raw: the meta slot
\* is written, the buffer cleared, and self.iter.next() returned
meta_parsed(S, meta_raw, event, d) ==
    IF ~meta_raw.some THEN passthrough(S, event)
    ELSE [S EXCEPT !.meta = Some(PostMeta(meta_raw.val, d)),
                   !.buffer = <<>>,
                   !.iter = IF S.iter = <<>> THEN <<>> ELSE Tail(S.iter),
                   !.ret = IF S.iter = <<>> THEN None ELSE Some(Head(S.iter))]

\* a block that does not parse leaves default metadata in the meta slot
meta_accumulated_default(acc, event, d) ==
    IF ~acc.text.some THEN passthrough(acc.S, event)
    ELSE IF ~toml_from_str(acc.text.val).some
    THEN passthrough([acc.S EXCEPT !.meta = Some(default_metadata(d))], event)
    ELSE meta_parsed(acc.S, toml_from_str(acc.text.val), event, d)

\* next, metadata arm, after accumulate_plain_text returned acc
meta_accumulated(acc, event, d) ==
    IF ~acc.text.some THEN passthrough(acc.S, event)
    ELSE meta_parsed(acc.S, toml_from_str(acc.text.val), event, d)

\* next, Start(MetadataBlock(PlusesStyle)) arm
next_meta(S0, event, d) ==
    Only({meta_accumulated(acc, event, d) : acc \in {accumulate_plain_text(S0, "MetadataBlock")}})

\* next, the match on the event pulled from upstream
dispatch(S0, event, d, h) ==
    IF IsStart(event, "CodeBlock") THEN next_code(S0, event)
    ELSE IF IsStart(event, "Image") THEN next_image(S0, event, d, h)
    ELSE IF IsStart(event, "MetadataBlock") THEN next_meta(S0, event, d)
    ELSE passthrough(S0, event)

\* the buffer is replayed from its back
CodeImageNext_pop_back(S, d, h) ==
    IF Len(S.buffer) > 0
    THEN [S EXCEPT !.buffer = SubSeq(@, 1, Len(@) - 1), !.ret = Some(S.buffer[Len(S.buffer)])]
    ELSE IF S.iter = <<>> THEN [S EXCEPT !.ret = None]
    ELSE dispatch([S EXCEPT !.iter = Tail(@)], Head(S.iter), d, h)

\* the stage pulls from upstream while one event is left in the buffer
CodeImageNext_eager(S, d, h) ==
    IF Len(S.buffer) > 1 \/ (Len(S.buffer) = 1 /\ S.iter = <<>>)
    THEN [S EXCEPT !.buffer = Tail(@), !.ret = Some(Head(S.buffer))]
    ELSE IF S.iter = <<>> THEN [S EXCEPT !.ret = None]
    ELSE dispatch([S EXCEPT !.iter = Tail(@)], Head(S.iter), d, h)

\* <CodeImageProcessor as Iterator>::next
CodeImageNext(S, d, h) ==
    IF Len(S.buffer) > 0 THEN [S EXCEPT !.buffer = Tail(@), !.ret = Some(Head(S.buffer))]
    ELSE IF S.iter = <<>> THEN [S EXCEPT !.ret = None]
    ELSE dispatch([S EXCEPT !.iter = Tail(@)], Head(S.iter), d, h)

\* one call of CodeImageProcessor::next as a history record: the events it
\* pulled from upstream, what it returned, the meta slot, the asset store
\* and the number of effects it left, and the length of the buffer it found
StepRecord(S, T) ==
    [pulled |-> SubSeq(S.iter, 1, Len(S.iter) - Len(T.iter)), ret |-> T.ret,
     meta |-> T.meta, assets |-> T.assets, neffects |-> Len(T.effects),
     nbuffer |-> Len(S.buffer)]

\* ---------------------------------------------------------------- MathProcessor
IsMath(e) == e.ev \in {"DisplayMath", "InlineMath"}
DisplayMode(e) == IF e.ev = "DisplayMath" THEN "block" ELSE "inline"

\* next, on a render error: self.iter.next() is returned
math_failed(S, T, U) == [S |-> U, calls |-> <<StepRecord(S, T), StepRecord(T, U)>>]

\* next, after push_mathml returned mathml for the math event T returned
math_rendered(S, T, mathml, d, h) ==
    IF ~mathml.some THEN Only({math_failed(S, T, U) : U \in {CodeImageNext(T, d, h)}})
    ELSE [S |-> [T EXCEPT !.ret = Some(Html(mathml.val, T.ret.val.lo, T.ret.val.hi))],
          calls |-> <<StepRecord(S, T)>>]

\* next, after self.iter.next() left the upstream stage as T
math_pulled(S, T, d, h) ==
    IF ~T.ret.some THEN [S |-> T, calls |-> <<StepRecord(S, T)>>]
    ELSE IF IsMath(T.ret.val)
    THEN math_rendered(S, T, push_mathml(T.ret.val.a, DisplayMode(T.ret.val)), d, h)
    ELSE [S |-> T, calls |-> <<StepRecord(S, T)>>]

\* <MathProcessor as Iterator>::next: the stage's state after the call (ret is
\* what it returns) and the records of the upstream calls it made
MathNext(S, d, h) == Only({math_pulled(S, T, d, h) : T \in {CodeImageNext(S, d, h)}})

\* ---------------------------------------------------------------- inputs
E(ev, tag, a) == [ev |-> ev, tag |-> tag, a |-> a]

Text(a) == E("Text", "", a)
InlineMath(a) == E("InlineMath", "", a)
DisplayMath(a) == E("DisplayMath", "", a)
Start(tag, a) == E("Start", tag, a)
End(tag) == E("End", tag, <<>>)

\* the events of a post of text, code, math and metadata, with one image
CoreEvents ==
    {Text(<<"title = 'T'", "\n">>),
     InlineMath(<<"x">>), DisplayMath(<<"\\bad">>),
     Start("CodeBlock", <<"rust">>), Start("CodeBlock", <<"cobol">>), Start("CodeBlock", <<"sql">>),
     End("CodeBlock"),
     Start("MetadataBlock", <<>>), End("MetadataBlock"),
     Start("Image", <<"a", ".", "png">>), End("Image"),
     Start("Paragraph", <<>>)}

\* the events of a post of images
ImageEvents ==
    {Text(<<"cap">>), InlineMath(<<"x">>), Start("Paragraph", <<>>),
     Start("Image", <<"a", ".", "png">>), Start("Image", <<"b", ".", "svg">>),
     Start("Image", <<"https", "://", "e.com/x", ".", "png">>),
     Start("Image", <<"https", "://", "[">>),
     Start("Image", <<"none", ".", "png">>), Start("Image", <<"bad", ".", "png">>),
     End("Image")}

\* the entry of the posts directory behind the post of file d/index.md, or of
\* the file PostFile(d), already passed by the loop of build_posts
EntryOf(d, contents) ==
    [path |-> IF d.some THEN d.val ELSE PostFile(d), kind |-> IF d.some THEN "dir" ELSE "file",
     index |-> d.some, file |-> contents, taken |-> TRUE]

\* the stream of the events f[1], f[2], ..., numbered from 1
Numbered(f) == [i \in DOMAIN f |-> Event(f[i].ev, f[i].tag, f[i].a, i)]

\* the hash functions that tell the blobs of `used` apart, or not
Hashers(used) ==
    {h \in [Blobs -> 0..(HashSpace - 1)] : \A b \in Blobs \ used : h[b] = 0}

\* ---------------------------------------------------------------- state machine
\* the post's source file cannot be read, or the parser yields a stream of at
\* most len events of the alphabet
FileOver(alphabet, len) ==
    \/ file = None
    \/ \E n \in 0..len : \E f \in [1..n -> alphabet] : file = Some(Numbered(f))

\* the state after PostBuilder { site, file, dir, meta: None } of a post
NewPostBuilder(dirs, hashers) ==
    /\ dir \in dirs
    /\ hasher \in hashers
    /\ pc = "build"
    /\ iter = <<>>
    /\ buffer = <<>>
    /\ meta = None
    /\ assets = <<>>
    /\ steps = <<>>
    /\ msteps = <<>>
    /\ effects = <<>>
    /\ post = None
    /\ written = {}
    /\ entries = <<EntryOf(dir, file)>>
    /\ posts = <<>>

\* the state after PostBuilder { site, file, dir, meta: None } of the first post
\* (its source file unreadable, or a stream of at most MaxLen events)
InitPost(alphabet, dirs, used) ==
    /\ FileOver(alphabet, MaxLen)
    /\ NewPostBuilder(dirs, Hashers(used))

Init == InitPost(CoreEvents, {Some(PostDir)}, {})

InitImage == InitPost(ImageEvents, {None, Some(PostDir)}, {})

\* a source file that parses to no event is taken for unreadable
BuildOpen_empty ==
    /\ pc = "build"
    /\ IF file.some /\ file.val # <<>>
       THEN /\ iter' = file.val
            /\ pc' = "fold"
       ELSE /\ iter' = iter
            /\ pc' = "skipped"
    /\ UNCHANGED <<file, dir, hasher, buffer, meta, assets, steps, msteps, effects, post, written, entries, posts>>

\* PostBuilder::build up to the construction of the two stages: the source
\* file is read and parsed, or build returns None
BuildOpen ==
    /\ pc = "build"
    /\ IF file.some
       THEN /\ iter' = file.val
            /\ pc' = "fold"
       ELSE /\ iter' = iter
            /\ pc' = "skipped"
    /\ UNCHANGED <<file, dir, hasher, buffer, meta, assets, steps, msteps, effects, post, written, entries, posts>>

\* the stage's record S of the current state
Stage == [iter |-> iter, buffer |-> buffer, meta |-> meta, assets |-> assets,
          effects |-> effects, ret |-> None]

\* push_html goes on calling next after it returned None
Pulled_again(r) ==
    IF r.S.ret.some
    THEN /\ iter' = r.S.iter
         /\ buffer' = r.S.buffer
         /\ meta' = r.S.meta
         /\ assets' = r.S.assets
         /\ effects' = r.S.effects
         /\ steps' = steps \o r.calls
         /\ msteps' = Append(msteps, [got |-> [i \in 1..Len(r.calls) |-> r.calls[i].ret],
                                      ret |-> r.S.ret])
         /\ pc' = "fold"
    ELSE UNCHANGED <<iter, buffer, meta, assets, effects, steps, msteps, pc>>

\* the state after MathProcessor::next returned r to push_html
Pulled(r) ==
    /\ iter' = r.S.iter
    /\ buffer' = r.S.buffer
    /\ meta' = r.S.meta
    /\ assets' = r.S.assets
    /\ effects' = r.S.effects
    /\ steps' = steps \o r.calls
    /\ msteps' = Append(msteps, [got |-> [i \in 1..Len(r.calls) |-> r.calls[i].ret],
                                 ret |-> r.S.ret])
    /\ pc' = IF r.S.ret.some THEN "fold" ELSE "folded"

\* one iteration of the loop of cmark::html::push_html: it calls
\* MathProcessor::next and stops at the first None
PushHtmlNext ==
    /\ pc = "fold"
    /\ \E r \in {MathNext(Stage, dir, hasher)} : Pulled(r)
    /\ UNCHANGED <<file, dir, hasher, post, written, entries, posts>>

\* the events push_html has rendered so far
Rendered == [i \in 1..Cardinality({j \in 1..Len(msteps) : msteps[j].ret.some}) |-> msteps[i].ret.val]

\* PostBuilder::build after the fold: the post's id and metadata
BuildFinish ==
    /\ pc = "folded"
    /\ post' = Some([id |-> get_file_name(dir),
                     meta |-> IF meta.some THEN meta.val ELSE default_metadata(dir),
                     source |-> Rendered])
    /\ pc' = "built"
    /\ UNCHANGED <<file, dir, hasher, iter, buffer, meta, assets, steps, msteps, effects, written, entries, posts>>

\* SiteBuilder::build_posts, the end of an iteration: the post build returned
\* is pushed
BuildPostsPush ==
    /\ pc \in {"built", "skipped"}
    /\ posts' = IF post.some THEN Append(posts, post.val) ELSE posts
    /\ pc' = "posts"
    /\ UNCHANGED <<file, dir, hasher, iter, buffer, meta, assets, steps, msteps, effects, post,
                   written, entries>>

\* SiteBuilder::build_pages, the loop over the assets
BuildPages ==
    /\ pc \in {"posts", "store"}
    /\ \A k \in 1..Len(entries) : entries[k].taken
    /\ written' = {asset_path(hash, assets[hash].ext) : hash \in DOMAIN assets}
    /\ pc' = "written"
    /\ UNCHANGED <<file, dir, hasher, iter, buffer, meta, assets, steps, msteps, effects, post, entries, posts>>

Next == BuildOpen \/ PushHtmlNext \/ BuildFinish \/ BuildPostsPush \/ BuildPages

Spec == Init /\ [][Next]_vars

SpecImage == InitImage /\ [][Next]_vars

\* the events that make a call of next pull more than once, pull again
\* after it consumed a block or failed to render, or emit more than it pulled
LiveEvents ==
    {Text(<<"title = 'T'", "\n">>), DisplayMath(<<"\\bad">>),
     Start("CodeBlock", <<"rust">>), End("CodeBlock"),
     Start("MetadataBlock", <<>>), End("MetadataBlock"),
     Start("Image", <<"a", ".", "png">>), End("Image")}

InitLive == InitPost(LiveEvents, {Some(PostDir)}, {})

\* the program is sequential and runs each of its steps to the end: a step
\* that can be taken is taken
SpecLive == InitLive /\ [][Next]_vars /\ WF_vars(Next)

\* ---------------------------------------------------------------- a post of any kind
\* the events of a post with images that cannot be embedded, with or without
\* a metadata block
DocEvents ==
    {Text(<<"cap">>), Start("Paragraph", <<>>),
     Start("MetadataBlock", <<>>), End("MetadataBlock"),
     Start("Image", <<"none", ".", "png">>), Start("Image", <<"bad", ".", "png">>),
     Start("Image", <<"hdr", ".", "png">>), Start("Image", <<"bin", ".", "svg">>),
     Start("Image", <<"a", ".", "png">>), End("Image")}

\* a post in a file of its own or in a directory
InitDoc == InitPost(DocEvents, {None, Some(PostDir)}, {})

SpecDoc == InitDoc /\ [][Next]_vars

\* ---------------------------------------------------------------- a post of metadata blocks
\* the key/value lines a metadata block may hold, in the order they are written
MetaLines ==
    <<"title = 'T'", "date = 2024-01-02T03:04:05Z", "tags = ['x', 'y']",
      "ghcommentid = 7", "ghcommentauthors = ['a']">>

\* the text of the block that holds the lines MetaLines[k], k in K, from line i on
RECURSIVE MetaText(_, _)
MetaText(K, i) ==
    IF i > Len(MetaLines) THEN <<>>
    ELSE (IF i \in K THEN <<MetaLines[i], "\n">> ELSE <<>>) \o MetaText(K, i + 1)

\* the events of a metadata block with the lines of K
MetaBlock(K) ==
    <<Start("MetadataBlock", <<>>)>>
    \o (IF K = {} THEN <<>> ELSE <<Text(MetaText(K, 1))>>)
    \o <<End("MetadataBlock")>>

\* a post of one metadata block, or of two with or without a paragraph between
InitMeta ==
    /\ \E K \in SUBSET (1..Len(MetaLines)) :
       \E sep \in {<<>>, <<Start("Paragraph", <<>>)>>} :
          \/ file = Some(Numbered(MetaBlock(K) \o sep))
          \/ \E L \in SUBSET (1..Len(MetaLines)) :
                file = Some(Numbered(MetaBlock(K) \o sep \o MetaBlock(L)))
    /\ NewPostBuilder({None, Some(PostDir)}, Hashers({}))

SpecMeta == InitMeta /\ [][Next]_vars

\* ---------------------------------------------------------------- a post of svg images
\* the events of a post of svg images, with one raster image
SvgEvents ==
    {Start("Image", <<"b", ".", "svg">>), Start("Image", <<"e", ".", "svg">>),
     Start("Image", <<"noroot", ".", "svg">>), Start("Image", <<"raw", ".", "svg">>),
     Start("Image", <<"bin", ".", "svg">>), Start("Image", <<"a", ".", "png">>),
     End("Image")}

\* what str::hash writes to the hasher for the sources of the svg files that clean
SvgBlobs == {<<"<svg>", "a", "</svg>", "\\xff">>, <<"<svg>", "a", "b", "</svg>", "\\xff">>}

\* hash values that differ in the low 16 bits, and one that differs from 0
\* only above them
HashValues == {0, 1, IdHashMask}

\* the hash functions over the svg sources
SvgHashers == {h \in [Blobs -> HashValues] : \A b \in Blobs \ SvgBlobs : h[b] = 0}

\* a directory-backed post of images
InitSvg ==
    /\ FileOver(SvgEvents, MaxLen)
    /\ NewPostBuilder({Some(PostDir)}, SvgHashers)

SpecSvg == InitSvg /\ [][Next]_vars

\* ---------------------------------------------------------------- a site of several posts
\* the events of the posts of a site: failing math, a code block that is not
\* highlighted, an image that is not found, an open metadata block
SiteEvents ==
    {DisplayMath(<<"\\bad">>), Start("CodeBlock", <<"sql">>), End("CodeBlock"),
     Start("Image", <<"none", ".", "png">>), End("Image"), Start("MetadataBlock", <<>>)}

\* the source files of the posts of a site: unreadable, or a short stream
SiteFiles ==
    {None} \cup UNION {{Some(Numbered(f)) : f \in [1..n -> SiteEvents]} : n \in 0..MaxSiteLen}

\* an entry of the posts directory: a directory with or without index.md, a
\* file, something that is neither, or an entry that cannot be read
Entry(path, kind, index, contents) ==
    [path |-> path, kind |-> kind, index |-> index, file |-> contents, taken |-> FALSE]

SiteEntries ==
    {Entry(PostDir, "dir", TRUE, f) : f \in SiteFiles}
    \cup {Entry(PostFile(None), "file", FALSE, f) : f \in SiteFiles}
    \cup {Entry(<<"posts", "/", "r">>, "dir", FALSE, None),
          Entry(<<"posts", "/", "notes", ".", "txt">>, "file", FALSE, None),
          Entry(<<"posts", "/", "sock">>, "other", FALSE, None),
          Entry(<<>>, "error", FALSE, None)}

\* the state when build_posts enters its loop over the posts directory
InitSite ==
    /\ \E n \in 0..MaxEntries : \E l \in [1..n -> SiteEntries] :
          /\ \A i, j \in 1..n : i # j => l[i].path # l[j].path
          /\ entries = l
    /\ file = None
    /\ dir = None
    /\ hasher \in Hashers({})
    /\ pc = "posts"
    /\ iter = <<>>
    /\ buffer = <<>>
    /\ meta = None
    /\ assets = <<>>
    /\ steps = <<>>
    /\ msteps = <<>>
    /\ effects = <<>>
    /\ post = None
    /\ written = {}
    /\ posts = <<>>

\* PostBuilder { site: self, file, dir, meta: None }, about to be built
NewBuilder(contents, d) ==
    /\ file' = contents
    /\ dir' = d
    /\ meta' = None
    /\ iter' = <<>>
    /\ buffer' = <<>>
    /\ steps' = <<>>
    /\ msteps' = <<>>
    /\ post' = None
    /\ pc' = "build"

\* SiteBuilder::build_posts, the head of an iteration: the next entry is
\* taken; a directory with index.md or a .md file gets a PostBuilder, with
\* anything else the loop continues
BuildPostsEntry ==
    /\ pc = "posts"
    /\ \E k \in 1..Len(entries) :
          /\ ~entries[k].taken
          /\ \A j \in 1..(k - 1) : entries[j].taken
          /\ entries' = [entries EXCEPT ![k].taken = TRUE]
          /\ IF entries[k].kind = "dir" /\ entries[k].index
             THEN NewBuilder(entries[k].file, Some(entries[k].path))
             ELSE IF entries[k].kind = "file" /\ extension(entries[k].path) = Some("md")
             THEN NewBuilder(entries[k].file, None)
             ELSE UNCHANGED <<file, dir, meta, iter, buffer, steps, msteps, post, pc>>
    /\ UNCHANGED <<hasher, assets, effects, written, posts>>

NextSite == BuildPostsEntry \/ Next

SpecSite == InitSite /\ [][NextSite]_vars

\* ---------------------------------------------------------------- a bare asset store
StoreExts == {<<"webp">>, <<"png">>}
StoreBlobs == {<<"RIFF", "WEBP", "px1">>, <<"RIFF", "WEBP", "px2">>, <<"raw">>}

\* the state after SiteBuilder { assets: HashMap::new(), .. }, no post being built
InitStore ==
    /\ file = None
    /\ dir = None
    /\ hasher \in Hashers(StoreBlobs)
    /\ pc = "store"
    /\ iter = <<>>
    /\ buffer = <<>>
    /\ meta = None
    /\ assets = <<>>
    /\ steps = <<>>
    /\ msteps = <<>>
    /\ effects = <<>>
    /\ post = None
    /\ written = {}
    /\ entries = <<>>
    /\ posts = <<>>

\* the state after store_asset returned st
Stored(st, asset, ext) ==
    /\ assets' = st.assets
    /\ effects' = Append(effects, [op |-> "store_asset", asset |-> asset,
                                   ext |-> ext, path |-> st.path])

\* a call of SiteBuilder::store_asset, by any caller
StoreAssetCall ==
    /\ pc = "store"
    /\ Len(effects) < MaxCalls
    /\ \E asset \in StoreBlobs, ext \in StoreExts :
          Stored(store_asset(assets, hasher, asset, ext), asset, ext)
    /\ UNCHANGED <<file, dir, hasher, pc, iter, buffer, meta, steps, msteps, post, written, entries, posts>>

NextStore == StoreAssetCall \/ BuildPages

SpecStore == InitStore /\ [][NextStore]_vars

\* ---------------------------------------------------------------- reading the histories
\* the upstream stream of the post
Input == IF file.some THEN file.val ELSE <<>>

\* the events the Code/Image stage has emitted so far, in order
RECURSIVE Returned(_)
Returned(log) ==
    IF log = <<>> THEN <<>>
    ELSE (IF Head(log).ret.some THEN <<Head(log).ret.val>> ELSE <<>>) \o Returned(Tail(log))

Emitted == Returned(steps)

\* the upstream positions of the start markers the stage dispatched on: the
\* event a call of next pulled first, with an empty buffer
Dispatched(i, tag) == steps[i].pulled # <<>> /\ IsStart(steps[i].pulled[1], tag)

\* meta slot and asset store before call i of CodeImageProcessor::next
MetaBefore(i) == IF i = 1 THEN None ELSE steps[i - 1].meta
AssetsBefore(i) == IF i = 1 THEN <<>> ELSE steps[i - 1].assets
EffectsBefore(i) == IF i = 1 THEN 0 ELSE steps[i - 1].neffects

\* Input[s] opens a block that ends at e with only text and inline math between
Accumulates(s, e, tag) ==
    /\ s < e /\ e <= Len(Input)
    /\ IsEnd(Input[e], tag)
    /\ \A k \in (s + 1)..(e - 1) : Input[k].ev \in {"Text", "InlineMath"}

\* o is the first event after Input[s] that is neither text, inline math nor End(tag)
Offends(s, o, tag) ==
    /\ s < o /\ o <= Len(Input)
    /\ Input[o].ev \notin {"Text", "InlineMath"} /\ ~IsEnd(Input[o], tag)
    /\ \A k \in (s + 1)..(o - 1) : Input[k].ev \in {"Text", "InlineMath"}

\* the text of the events Input[from..to]
RECURSIVE BlockText(_, _)
BlockText(from, to) ==
    IF from > to THEN <<>>
    ELSE (IF Input[from].ev = "InlineMath" THEN <<"$">> \o Input[from].a \o <<"$">>
          ELSE Input[from].a) \o BlockText(from + 1, to)

\* calls i+1 .. i+n of next, as far as they have happened, replay Input[s+1 .. s+n]
\* from the buffer and pull nothing
Replays(i, s, n) ==
    \A k \in 1..n : i + k <= Len(steps) =>
        steps[i + k].pulled = <<>> /\ steps[i + k].ret = Some(Input[s + k])

\* calls i .. i+n of next, as far as they have happened, leave meta slot and asset store alone
Untouched(i, n) ==
    \A k \in 0..n : i + k <= Len(steps) =>
        steps[i + k].meta = MetaBefore(i) /\ steps[i + k].assets = AssetsBefore(i)

BlockTags == {"CodeBlock", "Image", "MetadataBlock"}

\* ---------------------------------------------------------------- C1
\* the metadata block Input[s..e] holds only text, and the text parses
GoodMetaBlock(s, e) ==
    /\ Accumulates(s, e, "MetadataBlock")
    /\ \A k \in (s + 1)..(e - 1) : Input[k].ev = "Text"
    /\ toml_from_str(BlockText(s + 1, e - 1)).some

StoreCalls == {k \in 1..Len(effects) : effects[k].op = "store_asset"}
PathsOf(asset) == {effects[k].path : k \in {j \in StoreCalls : effects[j].asset = asset}}

C3_FirstWriteWins ==
    [][/\ \A h \in DOMAIN assets : h \in DOMAIN assets' /\ assets'[h] = assets[h]
       /\ \A h \in DOMAIN assets :
             (/\ Len(effects') = Len(effects) + 1
              /\ effects'[Len(effects')].op = "store_asset"
              /\ hasher[effects'[Len(effects')].asset] = h)
             => /\ assets' = assets
                /\ effects'[Len(effects')].path = asset_path(h, assets[h].ext)]_vars

\* two calls with different bytes and different extensions met on one hash:
\* the store holds the first call's bytes and extension, and the second call
\* got the first call's path
C3_Witness ==
    \E i, j \in StoreCalls :
        LET h == hasher[effects[i].asset]
        IN  /\ i < j
            /\ \A k \in StoreCalls : k < i => hasher[effects[k].asset] # h
            /\ hasher[effects[j].asset] = h
            /\ effects[i].asset # effects[j].asset /\ effects[i].ext # effects[j].ext
            /\ assets[h] = [asset |-> effects[i].asset, ext |-> effects[i].ext]
            /\ effects[j].path = asset_path(h, effects[i].ext)

\* ---------------------------------------------------------------- C4
\* C4: when next dispatches on the start marker Input[s] of a block and the
\* accumulation meets an offending event Input[o], the call pulls nothing
\* past Input[o] and returns Input[s]; the next calls replay Input[s+1..o]
\* from the buffer unchanged and in order; the call after them pulls
\* Input[o+1]; meta slot and asset store stay as they were.
C4_AbortReplaysVerbatim ==
    \A i \in 1..Len(steps) : \A o \in 1..Len(Input) : \A tag \in BlockTags :
        LET s == steps[i].pulled[1].id
            n == o - s
        IN  (Dispatched(i, tag) /\ Offends(s, o, tag))
            => /\ steps[i].pulled = SubSeq(Input, s, o)
               /\ steps[i].ret = Some(Input[s])
               /\ Replays(i, s, n)
               /\ (i + n + 1 <= Len(steps) /\ o < Len(Input))
                     => /\ steps[i + n + 1].pulled # <<>>
                        /\ steps[i + n + 1].pulled[1] = Input[o + 1]
               /\ Untouched(i, n)

\* an accumulation was aborted after a text event, the buffer was replayed
\* and the stage went on to the event after the offending one
C4_Witness ==
    \E i \in 1..Len(steps) : \E o \in 1..Len(Input) : \E tag \in BlockTags :
        LET s == steps[i].pulled[1].id
        IN  /\ Dispatched(i, tag) /\ Offends(s, o, tag)
            /\ o = s + 2 /\ o < Len(Input)
            /\ Len(steps) >= i + 3
            /\ steps[i + 2].ret = Some(Input[o])
            /\ steps[i + 3].pulled[1] = Input[o + 1]

\* ---------------------------------------------------------------- C5
IsOriginal(e) == e.id # 0

\* C5: in the output of the composed pipeline the upstream events appear
\* unchanged, at most once and in upstream order, and an event a stage made
\* in place of Input[lo..hi] comes after every emitted upstream event before
\* lo and before every emitted upstream event after hi.
C5_OrderPreserved ==
    /\ \A j \in 1..Len(Rendered) :
          IsOriginal(Rendered[j]) =>
             Rendered[j].id <= Len(Input) /\ Rendered[j] = Input[Rendered[j].id]
    /\ \A j, k \in 1..Len(Rendered) :
          j < k =>
             /\ (IsOriginal(Rendered[j]) /\ IsOriginal(Rendered[k])) => Rendered[j].id < Rendered[k].id
             /\ Rendered[j].lo <= Rendered[k].hi
    /\ \A j \in 1..Len(Rendered) :
          /\ 1 <= Rendered[j].lo /\ Rendered[j].lo <= Rendered[j].hi /\ Rendered[j].hi <= Len(Input)

\* a finished run that replaced an image block (its caption kept between the
\* markup the stage made) after one upstream event and before another
C5_Witness ==
    /\ pc = "folded"
    /\ Len(Input) = 4
    /\ IsStart(Input[2], "Image")
    /\ Len(Rendered) = 6
    /\ Rendered[1] = Input[1] /\ Rendered[6] = Input[4]
    /\ \A j \in 2..5 : ~IsOriginal(Rendered[j]) /\ Rendered[j].lo = 2 /\ Rendered[j].hi = 3

\* ---------------------------------------------------------------- C6
\* the highlighter takes the code block Input[s..e]
Highlights(s, e) ==
    /\ IsStart(Input[s], "CodeBlock")
    /\ Accumulates(s, e, "CodeBlock")
    /\ highlight(Input[s].a, trim_end(BlockText(s + 1, e - 1))).ok

\* the markup next_code makes of the code block Input[s..e]
Highlighted(s, e) ==
    Html(<<"<a-lf></a-lf>">> \o replace_lf(highlight(Input[s].a, trim_end(BlockText(s + 1, e - 1))).html),
         s, e)

\* C6: once the stream is exhausted, for every fenced code block of the
\* stream with a body of text and inline math and a supported language the
\* stage has emitted the start marker, one highlighted markup event and the
\* end marker, in a row, and no event of the body.
C6_EveryCodeBlockHighlighted ==
    pc = "folded" =>
        \A s, e \in 1..Len(Input) :
            Highlights(s, e)
            => /\ \E j \in 1..Len(Emitted) :
                     /\ j + 2 <= Len(Emitted)
                     /\ Emitted[j] = Input[s]
                     /\ Emitted[j + 1] = Highlighted(s, e)
                     /\ Emitted[j + 2] = Input[e]
               /\ \A j \in 1..Len(Emitted) : Emitted[j].id \notin (s + 1)..(e - 1)

\* ---------------------------------------------------------------- C7
\* C7: when next dispatches on the start marker of a code block whose body
\* accumulates and the highlighter returns an error (unsupported language or
\* any other), the call returns the start marker, the next calls replay the
\* body and the end marker unchanged and in order, and the call after them
\* pulls the event after the block.
C7_HighlightErrorPassthrough ==
    \A i \in 1..Len(steps) : \A e \in 1..Len(Input) :
        LET s == steps[i].pulled[1].id
            n == e - s
        IN  (/\ Dispatched(i, "CodeBlock") /\ Accumulates(s, e, "CodeBlock")
             /\ ~highlight(Input[s].a, trim_end(BlockText(s + 1, e - 1))).ok)
            => /\ steps[i].pulled = SubSeq(Input, s, e)
               /\ steps[i].ret = Some(Input[s])
               /\ Replays(i, s, n)
               /\ (i + n + 1 <= Len(steps) /\ e < Len(Input))
                     => /\ steps[i + n + 1].pulled # <<>>
                        /\ steps[i + n + 1].pulled[1] = Input[e + 1]

\* a code block of one text event whose highlighting failed with an error
\* other than UnsupportedLanguage was replayed, and the stage went on
C7_Witness ==
    \E i \in 1..Len(steps) : \E e \in 1..Len(Input) :
        LET s == steps[i].pulled[1].id
        IN  /\ Dispatched(i, "CodeBlock") /\ Accumulates(s, e, "CodeBlock")
            /\ e = s + 2 /\ e < Len(Input)
            /\ highlight(Input[s].a, trim_end(BlockText(s + 1, e - 1))) = [ok |-> FALSE, err |-> "ParseError"]
            /\ Len(steps) >= i + 3
            /\ steps[i + 1].ret = Some(Input[s + 1])
            /\ steps[i + 2].ret = Some(Input[e])
            /\ steps[i + 3].pulled[1] = Input[e + 1]

\* ---------------------------------------------------------------- C8
\* the path the image Input[s] names, beside the post
ImagePath(s) == join(dir.val, Input[s].a)

\* Input[s..e] is an image with a caption of text and inline math whose
\* relative URL names a file beside the post
LocalImage(s, e) ==
    /\ IsStart(Input[s], "Image")
    /\ Accumulates(s, e, "Image")
    /\ dir.some
    /\ url_parse(Input[s].a) = "RelativeUrlWithoutBase"
    /\ FileAt(ImagePath(s)).is_file

\* ... a raster image that decodes and encodes
EmbedsRaster(s, e) ==
    /\ LocalImage(s, e)
    /\ extension(ImagePath(s)) # Some("svg")
    /\ image_open(ImagePath(s)).some
    /\ write_with_encoder(image_open(ImagePath(s)).val).some

\* ... an svg image that can be read
EmbedsSvg(s, e) ==
    /\ LocalImage(s, e)
    /\ extension(ImagePath(s)) = Some("svg")
    /\ FileAt(ImagePath(s)).read.some

WebpOf(s) == write_with_encoder(image_open(ImagePath(s)).val).val

\* calls i .. i+(e-s)+2 of next returned the figure of the image Input[s..e]
\* around `body`: <figure>, body, <figcaption>, the caption events, the closing tags
EmitsFigure(i, s, e, body) ==
    /\ i + (e - s) + 2 <= Len(steps)
    /\ steps[i].ret = Some(Html(<<"<figure>">>, s, e))
    /\ steps[i + 1].ret = Some(Html(body, s, e))
    /\ steps[i + 2].ret = Some(Html(<<"<figcaption>">>, s, e))
    /\ \A k \in 1..(e - s - 1) : steps[i + 2 + k].ret = Some(Input[s + k])
    /\ steps[i + (e - s) + 2].ret = Some(Html(<<"</figcaption></figure>">>, s, e))

\* C8: once the stream is exhausted, for every image of the stream that can
\* be embedded as a raster image the stage has emitted its figure, the img
\* pointing at "/" and the stored path of the encoded bytes, and the asset
\* store held the entry of that path when the figure was opened.
C8_EveryImageEmbedded ==
    pc = "folded" =>
        \A s, e \in 1..Len(Input) :
            EmbedsRaster(s, e)
            => \E i \in 1..Len(steps) :
                  LET h == hasher[WebpOf(s)]
                      path == asset_path(h, <<"webp">>)
                  IN  /\ h \in DOMAIN steps[i].assets
                      /\ asset_path(h, steps[i].assets[h].ext) = path
                      /\ EmitsFigure(i, s, e, <<"<img src=\"", "/">> \o path \o <<"\" alt=\"">>
                                                 \o BlockText(s + 1, e - 1) \o <<"\">">>)

\* ---------------------------------------------------------------- C9
\* next embeds the image Input[s..e]
Embeds(s, e) == EmbedsRaster(s, e) \/ EmbedsSvg(s, e)

\* as stated: when next dispatches on the start marker of an image that it
\* embeds, the stage emits none of the upstream events of the image, start
\* marker, caption events and end marker.
C9_NoOriginalEmitted ==
    \A i \in 1..Len(steps) : \A e \in 1..Len(Input) :
        LET s == steps[i].pulled[1].id
        IN  (Dispatched(i, "Image") /\ Embeds(s, e))
            => \A j \in 1..Len(Emitted) : Emitted[j].id \notin s..e

\* C9 (amended): when next dispatches on the start marker of an image that it
\* embeds, the stage emits neither the start marker nor the end marker; the
\* call returns <figure>, and the next calls return, from the buffer, one
\* markup event, <figcaption>, the caption events unchanged and in order, and
\* the closing tags.
C9_MarkersReplacedCaptionKept ==
    \A i \in 1..Len(steps) : \A e \in 1..Len(Input) :
        LET s == steps[i].pulled[1].id
            n == e - s
            at(k) == steps[i + k]
        IN  (Dispatched(i, "Image") /\ Embeds(s, e))
            => /\ \A j \in 1..Len(Emitted) : Emitted[j].id \notin {s, e}
               /\ steps[i].pulled = SubSeq(Input, s, e)
               /\ steps[i].ret = Some(Html(<<"<figure>">>, s, e))
               /\ \A k \in 1..(n + 2) : i + k <= Len(steps) => at(k).pulled = <<>>
               /\ i + 1 <= Len(steps) =>
                     /\ at(1).ret.val.ev = "Html" /\ ~IsOriginal(at(1).ret.val)
                     /\ at(1).ret.val.lo = s /\ at(1).ret.val.hi = e
               /\ i + 2 <= Len(steps) => at(2).ret = Some(Html(<<"<figcaption>">>, s, e))
               /\ \A k \in 1..(n - 1) : i + 2 + k <= Len(steps) => at(2 + k).ret = Some(Input[s + k])
               /\ i + n + 2 <= Len(steps) => at(n + 2).ret = Some(Html(<<"</figcaption></figure>">>, s, e))

\* an svg image with a caption of one text event was inlined and its figure
\* was emitted to the end, the caption event between the markup
C9_Witness ==
    \E i \in 1..Len(steps) : \E e \in 1..Len(Input) :
        LET s == steps[i].pulled[1].id
        IN  /\ Dispatched(i, "Image") /\ EmbedsSvg(s, e)
            /\ e = s + 2 /\ Input[s + 1].ev = "Text"
            /\ Len(steps) >= i + 4
            /\ steps[i + 3].ret = Some(Input[s + 1])
            /\ steps[i + 4].ret = Some(Html(<<"</figcaption></figure>">>, s, e))

\* ---------------------------------------------------------------- C10
\* C10: when next dispatches on the start marker of an image whose caption
\* accumulates and whose URL parses as an absolute URL, or fails to parse
\* other than as a relative URL without base, the call returns the start
\* marker, the next calls replay the caption events and the end marker
\* unchanged and in order, no call of resolve_file or store_asset is made,
\* and meta slot and asset store stay as they were.
C10_ExternalImagePassthrough ==
    \A i \in 1..Len(steps) : \A e \in 1..Len(Input) :
        LET s == steps[i].pulled[1].id
            n == e - s
        IN  (/\ Dispatched(i, "Image") /\ Accumulates(s, e, "Image")
             /\ url_parse(Input[s].a) # "RelativeUrlWithoutBase")
            => /\ steps[i].pulled = SubSeq(Input, s, e)
               /\ steps[i].ret = Some(Input[s])
               /\ Replays(i, s, n)
               /\ \A k \in 0..n : i + k <= Len(steps) => steps[i + k].neffects = EffectsBefore(i)
               /\ Untouched(i, n)

\* in a directory-backed post an image with an absolute URL and a caption of
\* one text event was passed through to its end marker, and nothing was
\* resolved or stored
C10_Witness ==
    \E i \in 1..Len(steps) : \E e \in 1..Len(Input) :
        LET s == steps[i].pulled[1].id
        IN  /\ Dispatched(i, "Image") /\ Accumulates(s, e, "Image")
            /\ dir.some
            /\ url_parse(Input[s].a) = "Ok"
            /\ e = s + 2 /\ Input[s + 1].ev = "Text"
            /\ Len(steps) >= i + 2
            /\ steps[i + 2].ret = Some(Input[e])
            /\ effects = <<>>

\* ---------------------------------------------------------------- C11
\* Input[s..e] is an image with a caption of text and inline math and a
\* relative URL that cannot be embedded: the post has no directory, the
\* joined path is no file, the svg file cannot be read, or the raster file
\* fails to decode or to encode
Unembeddable(s, e) ==
    /\ IsStart(Input[s], "Image")
    /\ Accumulates(s, e, "Image")
    /\ url_parse(Input[s].a) = "RelativeUrlWithoutBase"
    /\ \/ ~dir.some
       \/ ~FileAt(ImagePath(s)).is_file
       \/ extension(ImagePath(s)) = Some("svg") /\ ~FileAt(ImagePath(s)).read.some
       \/ extension(ImagePath(s)) # Some("svg") /\ ~image_open(ImagePath(s)).some
       \/ /\ extension(ImagePath(s)) # Some("svg") /\ image_open(ImagePath(s)).some
          /\ ~write_with_encoder(image_open(ImagePath(s)).val).some

\* the stage has emitted the events Input[s..e] in a row
EmittedInARow(s, e) ==
    \E j \in 1..Len(Emitted) :
        /\ j + (e - s) <= Len(Emitted)
        /\ \A k \in 0..(e - s) : Emitted[j + k] = Input[s + k]

\* C11: when next dispatches on the start marker of an image with a relative
\* URL that cannot be embedded (no directory, no such file, unreadable svg,
\* decode or encode failure), the call returns the start marker, the next
\* calls replay the caption events and the end marker unchanged and in
\* order, no call of store_asset is made and the asset store stays as it
\* was; and once the stream is exhausted the events of every such image of
\* the stream have been emitted unchanged and in a row.
C11_UnembeddablePassthrough ==
    /\ \A i \in 1..Len(steps) : \A e \in 1..Len(Input) :
          LET s == steps[i].pulled[1].id
              n == e - s
          IN  (Dispatched(i, "Image") /\ Unembeddable(s, e))
              => /\ steps[i].pulled = SubSeq(Input, s, e)
                 /\ steps[i].ret = Some(Input[s])
                 /\ Replays(i, s, n)
                 /\ Untouched(i, n)
                 /\ \A k \in (EffectsBefore(i) + 1)..steps[i].neffects :
                       effects[k].op # "store_asset"
    /\ pc = "folded" =>
          \A s, e \in 1..Len(Input) : Unembeddable(s, e) => EmittedInARow(s, e)

\* after one image was stored, an image whose pixels the encoder rejects was
\* passed through to its end marker, and the store still holds one entry
C11_Witness ==
    /\ pc = "folded"
    /\ dir.some
    /\ Len(Input) = 4
    /\ EmbedsRaster(1, 2)
    /\ Unembeddable(3, 4)
    /\ image_open(ImagePath(3)).some
    /\ Cardinality(DOMAIN assets) = 1
    /\ Len(Emitted) >= 2
    /\ Emitted[Len(Emitted) - 1] = Input[3]
    /\ Emitted[Len(Emitted)] = Input[4]

\* ---------------------------------------------------------------- C12
\* the math event e renders
Renders(e) == IsMath(e) /\ push_mathml(e.a, DisplayMode(e)).some

\* the markup MathProcessor::next makes of the math event e
MathMl(e) == Html(push_mathml(e.a, DisplayMode(e)).val, e.lo, e.hi)

\* C12: for every event the Math stage pulls from the Code/Image stage, if it
\* is a math event that renders, the call returns the one markup event made of
\* it, and if it is no math event, the call returns it unchanged; no math
\* event that renders is ever returned by the Math stage.
C12_EveryMathRendered ==
    \A j \in 1..Len(msteps) :
        /\ \A k \in 1..Len(msteps[j].got) :
              msteps[j].got[k].some =>
                 LET e == msteps[j].got[k].val
                 IN  /\ Renders(e) => msteps[j].ret = Some(MathMl(e))
                     /\ ~IsMath(e) => msteps[j].ret = Some(e)
        /\ msteps[j].ret.some => ~Renders(msteps[j].ret.val)

\* ---------------------------------------------------------------- C13
\* the math events among the first n events the Code/Image stage emitted
\* that do not render
FailedMath(n) == {k \in 1..n : IsMath(Emitted[k]) /\ ~Renders(Emitted[k])}

\* C13: the Math stage never returns a math event that does not render, and
\* once the stream is exhausted it has returned one event for every event of
\* the Code/Image stage but those, in the order of that stage.
C13_FailedMathDropped ==
    /\ \A j \in 1..Len(msteps) :
          (msteps[j].ret.some /\ IsMath(msteps[j].ret.val)) => Renders(msteps[j].ret.val)
    /\ pc = "folded" =>
          /\ Len(Rendered) = Len(Emitted) - Cardinality(FailedMath(Len(Emitted)))
          /\ \A k \in 1..Len(Emitted) :
                k \notin FailedMath(Len(Emitted)) =>
                   LET r == Rendered[k - Cardinality(FailedMath(k))]
                   IN  r.lo = Emitted[k].lo /\ r.hi = Emitted[k].hi

\* ---------------------------------------------------------------- C14
\* the stream holds no marker of a metadata block
NoMetadataBlock == \A k \in 1..Len(Input) : Input[k].tag # "MetadataBlock"

\* C14: build returns a post for every readable source file whose stream
\* holds no metadata block; the post's id is the name of the directory of a
\* directory-backed post and the file name without .md otherwise, its title
\* is its id, it has no tags and no comment reference.
C14_DefaultMetadata ==
    (file.some /\ NoMetadataBlock) =>
        /\ pc # "skipped"
        /\ pc = "built" =>
              /\ post.some
              /\ post.val.id = IF dir.some THEN <<"p">> ELSE <<"q">>
              /\ post.val.meta.title = post.val.id
              /\ post.val.meta.tags = <<>>
              /\ post.val.meta.ghcomment = None

\* a post in a file of its own, with events but no metadata block, was built
\* with the title q
C14_Witness ==
    /\ pc = "built"
    /\ file.some /\ NoMetadataBlock
    /\ ~dir.some
    /\ Len(Input) = 4
    /\ post.val.meta.title = <<"q">>

\* ---------------------------------------------------------------- C15
\* the metadata block opened by Input[s] accumulates and parses
ParsedBlock(s) ==
    \E e \in 1..Len(Input) :
        /\ Accumulates(s, e, "MetadataBlock")
        /\ toml_from_str(BlockText(s + 1, e - 1)).some

\* build took the metadata of the finished post from default_metadata: the
\* meta slot was empty after the fold
UsesDefaultMetadata == pc = "built" /\ ~meta.some

\* as stated: when next dispatched on a metadata block that fails to
\* accumulate or to parse, the finished post's metadata does not come from
\* default_metadata.
C15_MalformedNeverDefault ==
    UsesDefaultMetadata =>
        ~\E i \in 1..Len(steps) :
            Dispatched(i, "MetadataBlock") /\ ~ParsedBlock(steps[i].pulled[1].id)

\* C15 (amended): the finished post's metadata comes from default_metadata
\* exactly when next never dispatched on a metadata block that accumulates
\* and parses, and then it is the default metadata; so a post whose only
\* metadata blocks fail to accumulate or to parse gets default metadata, as
\* a post with no metadata block does.
C15_DefaultUnlessParsed ==
    pc = "built" =>
        /\ ~meta.some <=> ~\E i \in 1..Len(steps) :
                               Dispatched(i, "MetadataBlock") /\ ParsedBlock(steps[i].pulled[1].id)
        /\ ~meta.some => post.val.meta = default_metadata(dir)
        /\ meta.some => post.val.meta = meta.val

\* a post whose one metadata block does not parse was built with default
\* metadata, and the events of the block were emitted as they were
C15_Witness ==
    /\ UsesDefaultMetadata
    /\ Len(Input) = 3
    /\ Accumulates(1, 3, "MetadataBlock")
    /\ IsStart(Input[1], "MetadataBlock")
    /\ ~ParsedBlock(1)
    /\ post.val.meta = default_metadata(dir)
    /\ Emitted = Input

\* ---------------------------------------------------------------- C16
\* C16: when next dispatches on a metadata block that parses, the metadata it
\* leaves in the meta slot has a comment reference exactly if the block holds
\* both the ghcommentid and the ghcommentauthors line, and then it is that id
\* with those authors; the tags are those of the tags line, or empty without
\* one; a title and a date given in the block are stored as given.
C16_ParsedMetadataFields ==
    \A i \in 1..Len(steps) : \A e \in 1..Len(Input) :
        LET s == steps[i].pulled[1].id
            m == steps[i].meta.val
            has(line) == line \in Range(BlockText(s + 1, e - 1))
        IN  (Dispatched(i, "MetadataBlock") /\ GoodMetaBlock(s, e))
            => /\ steps[i].meta.some
               /\ m.ghcomment.some <=> (has("ghcommentid = 7") /\ has("ghcommentauthors = ['a']"))
               /\ m.ghcomment.some => m.ghcomment.val = <<<<"7">>, <<"a">>>>
               /\ m.tags = IF has("tags = ['x', 'y']") THEN <<"x", "y">> ELSE <<>>
               /\ has("title = 'T'") => m.title = <<"T">>
               /\ has("date = 2024-01-02T03:04:05Z") => m.date = <<"2024-01-02T03:04:05Z">>

\* a block with a comment id but no authors, and with no tags, was parsed:
\* no comment reference, no tags, the title as given
C16_Witness ==
    \E i \in 1..Len(steps) :
        /\ Dispatched(i, "MetadataBlock") /\ GoodMetaBlock(steps[i].pulled[1].id, steps[i].pulled[1].id + 2)
        /\ BlockText(2, 2) = <<"title = 'T'", "\n", "ghcommentid = 7", "\n">>
        /\ steps[i].pulled[1].id = 1
        /\ steps[i].meta = Some([title |-> <<"T">>, date |-> CreatedDate, tags |-> <<>>,
                                  ghcomment |-> None])

\* ---------------------------------------------------------------- C17
\* Input[s..e] is a metadata block that accumulates and parses
ParsesAt(s, e) ==
    /\ IsStart(Input[s], "MetadataBlock")
    /\ Accumulates(s, e, "MetadataBlock")
    /\ toml_from_str(BlockText(s + 1, e - 1)).some

\* C17: once the stream is exhausted, if it holds several metadata blocks
\* that accumulate and parse, the meta slot holds the metadata of the last
\* of them.
C17_LastWriteWins ==
    pc = "folded" =>
        \A s, e \in 1..Len(Input) :
            (/\ ParsesAt(s, e)
             /\ \E t \in 1..(s - 1) : ParsedBlock(t) /\ IsStart(Input[t], "MetadataBlock")
             /\ ~\E t \in (s + 1)..Len(Input) : ParsedBlock(t) /\ IsStart(Input[t], "MetadataBlock"))
            => meta = Some(PostMeta(toml_from_str(BlockText(s + 1, e - 1)).val, dir))

\* ---------------------------------------------------------------- C18
\* the places of the element ids in a markup
IdPlaces(a) == {k \in 1..Len(a) : a[k] = "<g id=\""}

\* the element ids in a markup, and their prefixes
IdsOf(a) == {SubSeq(a, k + 1, k + 6) : k \in IdPlaces(a)}
PrefixesOf(a) == {SubSeq(a, k + 1, k + 4) : k \in IdPlaces(a)}

\* C18: the markups the stage emits for two different svg files share no
\* element id, and the prefixes of their ids differ.
C18_InlinedIdsDistinct ==
    \A j, k \in 1..Len(Emitted) :
        (/\ Emitted[j].ev = "Html" /\ Emitted[k].ev = "Html"
         /\ Input[Emitted[j].lo].a # Input[Emitted[k].lo].a)
        => /\ IdsOf(Emitted[j].a) \cap IdsOf(Emitted[k].a) = {}
           /\ PrefixesOf(Emitted[j].a) \cap PrefixesOf(Emitted[k].a) = {}

\* ---------------------------------------------------------------- C19
\* C19: every entry of the asset store has the extension webp, and a call of
\* next that dispatches on an image whose path has the extension svg, and
\* the calls that replay its buffer, leave the asset store as it was and
\* call store_asset not once.
C19_SvgNeverStored ==
    /\ \A h \in DOMAIN assets : assets[h].ext = <<"webp">>
    /\ \A i \in 1..Len(steps) :
          LET s == steps[i].pulled[1].id
          IN  (Dispatched(i, "Image") /\ extension(Input[s].a) = Some("svg"))
              => /\ steps[i].assets = AssetsBefore(i)
                 /\ \A k \in (EffectsBefore(i) + 1)..steps[i].neffects :
                       effects[k].op # "store_asset"
                 /\ \A k \in 1..Len(steps[i].pulled) :
                       i + k <= Len(steps) /\ steps[i + k].pulled = <<>>
                       => steps[i + k].assets = AssetsBefore(i)

\* after a raster image was stored, an svg image was inlined; the store holds
\* the one webp entry
C19_Witness ==
    /\ Len(Input) = 4
    /\ EmbedsRaster(1, 2)
    /\ EmbedsSvg(3, 4)
    /\ pc = "folded"
    /\ \E i \in 1..Len(steps) :
          /\ Dispatched(i, "Image") /\ steps[i].pulled[1].id = 3
          /\ steps[i].ret = Some(Html(<<"<figure>">>, 3, 4))
    /\ Cardinality(DOMAIN assets) = 1
    /\ \A h \in DOMAIN assets : assets[h].ext = <<"webp">>

\* ---------------------------------------------------------------- C20
\* build_posts makes a PostBuilder for the entry
Buildable(e) ==
    \/ e.kind = "dir" /\ e.index
    \/ e.kind = "file" /\ extension(e.path) = Some("md")

\* the ids of the posts of the entries the loop has passed whose source file
\* can be read, in the order of the listing
RECURSIVE ReadableIds(_)
ReadableIds(l) ==
    IF l = <<>> THEN <<>>
    ELSE (IF Head(l).taken /\ Buildable(Head(l)) /\ Head(l).file.some
          THEN <<IF Head(l).kind = "dir" THEN file_name(Head(l).path)
                 ELSE trim_md(file_name(Head(l).path))>>
          ELSE <<>>) \o ReadableIds(Tail(l))

\* C20: build returns None only for a post whose source file cannot be read,
\* and returns a post for every other, whatever the stages met; and whenever
\* build_posts is between two entries, and when the site is written, it has
\* pushed one post for every entry passed so far that got a PostBuilder and
\* can be read, in the order of the listing, so that a skipped post does not
\* keep the posts after it from being built.
C20_OnlyUnreadableSkipped ==
    /\ pc = "skipped" => ~file.some /\ post = None
    /\ pc \in {"fold", "folded", "built"} => file.some
    /\ pc = "built" => post.some
    /\ pc \in {"posts", "written"} => [k \in 1..Len(posts) |-> posts[k].id] = ReadableIds(entries)
    /\ pc = "written" => \A k \in 1..Len(entries) : entries[k].taken

\* the site was written after a post that cannot be read was skipped and the
\* post after it, with math that does not render, was built and pushed
C20_Witness ==
    /\ pc = "written"
    /\ Len(entries) = 2
    /\ Buildable(entries[1]) /\ ~entries[1].file.some
    /\ Buildable(entries[2]) /\ entries[2].file.some
    /\ Len(entries[2].file.val) = 2
    /\ IsMath(entries[2].file.val[1]) /\ ~Renders(entries[2].file.val[1])
    /\ Len(posts) = 1
    /\ posts[1].id = <<"p">>

\* ---------------------------------------------------------------- C21
\* the stage's record of the current state, with m in the meta slot
StageWith(m) == [Stage EXCEPT !.meta = m]

\* what a call of MathProcessor::next does apart from the meta slot
Visible(r) ==
    [iter |-> r.S.iter, buffer |-> r.S.buffer, assets |-> r.S.assets, effects |-> r.S.effects,
     ret |-> r.S.ret, rets |-> [k \in 1..Len(r.calls) |-> r.calls[k].ret]]

\* C21: a call of CodeImageProcessor::next changes the meta slot only when it
\* dispatches on a metadata block that accumulates and parses, and then to
\* the metadata of that block; a call of MathProcessor::next leaves the slot
\* as its last call of CodeImageProcessor::next left it; what a call of
\* either stage pulls, buffers, stores and returns is the same whatever the
\* slot holds; and build takes the post's metadata from the slot as the fold
\* left it.
C21_MetaSingleWriter ==
    /\ \A i \in 1..Len(steps) :
          steps[i].meta # MetaBefore(i) =>
             /\ Dispatched(i, "MetadataBlock")
             /\ \E e \in 1..Len(Input) :
                   /\ ParsesAt(steps[i].pulled[1].id, e)
                   /\ steps[i].meta = Some(PostMeta(toml_from_str(
                          BlockText(steps[i].pulled[1].id + 1, e - 1)).val, dir))
    /\ (pc \in {"fold", "folded", "built"} /\ steps # <<>>) => meta = steps[Len(steps)].meta
    /\ (pc \in {"fold", "folded", "built"} /\ steps = <<>>) => meta = None
    /\ pc = "fold" =>
          /\ Visible(MathNext(StageWith(None), dir, hasher))
                = Visible(MathNext(StageWith(Some(default_metadata(dir))), dir, hasher))
          /\ MathNext(Stage, dir, hasher).S.meta # meta
                => MathNext(StageWith(None), dir, hasher).S.meta = MathNext(Stage, dir, hasher).S.meta
    /\ pc = "built" => post.val.meta = IF meta.some THEN meta.val ELSE default_metadata(dir)

\* after a metadata block was parsed the Math stage rendered the math event
\* behind it, and the slot still holds the metadata of the block
C21_Witness ==
    /\ pc = "folded"
    /\ Len(Input) = 4
    /\ ParsesAt(1, 3)
    /\ IsMath(Input[4]) /\ Renders(Input[4])
    /\ Len(msteps) = 2
    /\ msteps[1].ret = Some(MathMl(Input[4]))
    /\ meta = Some(PostMeta(toml_from_str(BlockText(2, 2)).val, dir))

\* ---------------------------------------------------------------- C22
\* Input[k] lies inside a block the stage consumed: a code block it
\* dispatched on and highlighted, or a metadata block it dispatched on and
\* parsed
Consumed(k) ==
    \E i \in 1..Len(steps) : \E e \in 1..Len(Input) :
        LET s == steps[i].pulled[1].id
        IN  /\ steps[i].pulled # <<>>
            /\ s < k /\ k < e
            /\ \/ Dispatched(i, "CodeBlock") /\ Highlights(s, e)
               \/ Dispatched(i, "MetadataBlock") /\ ParsesAt(s, e)

\* the Code/Image stage has emitted Input[k] as it is, once, and the Math
\* stage has pulled it
Survives(k) ==
    /\ Cardinality({j \in 1..Len(Emitted) : Emitted[j] = Input[k]}) = 1
    /\ \E m \in 1..Len(msteps) : Some(Input[k]) \in Range(msteps[m].got)

HeldBy(i) ==
    /\ steps[i].pulled # <<>>
    /\ steps[i].pulled[1].ev = "Start" /\ steps[i].pulled[1].tag \in BlockTags
    /\ \A j \in (i + 1)..Len(steps) : steps[j].pulled = <<>>
    /\ \A k \in 1..Len(buffer) :
          /\ steps[i].pulled[1].id <= buffer[k].lo
          /\ buffer[k].hi <= steps[i].pulled[Len(steps[i].pulled)].id
          /\ IsOriginal(buffer[k]) => buffer[k] \in Range(Tail(steps[i].pulled))

\* C24: a call of CodeImageProcessor::next that pulls from upstream found the
\* buffer empty, a call that found events in the buffer pulls nothing and
\* returns the first of them, and whatever the buffer holds was pulled, or
\* made of what was pulled, by one call of next for one block.
C24_PullsOnlyWithEmptyBuffer ==
    /\ \A i \in 1..Len(steps) :
          /\ steps[i].pulled # <<>> => steps[i].nbuffer = 0
          /\ steps[i].nbuffer > 0 => steps[i].pulled = <<>> /\ steps[i].ret.some
    /\ (pc \in {"fold", "folded"} /\ buffer # <<>>) => \E i \in 1..Len(steps) : HeldBy(i)

\* the second of two blocks whose accumulation was aborted has been pulled,
\* after the buffer of the first was drained, and the buffer holds its one event
C24_Witness ==
    /\ Len(Input) = 4
    /\ Len(steps) = 3
    /\ Dispatched(1, "CodeBlock") /\ Offends(1, 2, "CodeBlock")
    /\ steps[2].nbuffer = 1 /\ steps[2].ret = Some(Input[2])
    /\ Dispatched(3, "CodeBlock") /\ Offends(3, 4, "CodeBlock")
    /\ steps[3].nbuffer = 0
    /\ buffer = <<Input[4]>>

\* ---------------------------------------------------------------- C25
\* upstream ends after Input[s] with text and inline math only
Exhausts(s) ==
    /\ s <= Len(Input)
    /\ \A k \in (s + 1)..Len(Input) : Input[k].ev \in {"Text", "InlineMath"}

\* C25: when next dispatches on the start marker Input[s] of a block and
\* upstream ends before an end marker or an offending event, the call pulls
\* all that is left and returns Input[s]; the next calls replay the pulled
\* events unchanged and in order and the call after them returns None; meta
\* slot and asset store stay as they were; and once the stream is exhausted
\* the stage has emitted Input[s] and all events after it, last and in a row.
C25_ExhaustedAccumulation ==
    \A i \in 1..Len(steps) : \A tag \in BlockTags :
        LET s == steps[i].pulled[1].id
            n == Len(Input) - s
        IN  (Dispatched(i, tag) /\ Exhausts(s))
            => /\ steps[i].pulled = SubSeq(Input, s, Len(Input))
               /\ steps[i].ret = Some(Input[s])
               /\ Replays(i, s, n)
               /\ Len(steps) <= i + n + 1
               /\ Len(steps) = i + n + 1 => steps[i + n + 1].pulled = <<>> /\ steps[i + n + 1].ret = None
               /\ Untouched(i, n + 1)
               /\ pc = "folded" =>
                     /\ Len(steps) = i + n + 1
                     /\ Len(Emitted) >= n + 1
                     /\ SubSeq(Emitted, Len(Emitted) - n, Len(Emitted)) = SubSeq(Input, s, Len(Input))

\* a code block with a body of one text event was left open at the end of the
\* stream, after two other events: its start marker and its body were
\* emitted and the stream ended
C25_Witness ==
    /\ pc = "folded"
    /\ Len(Input) = 4
    /\ \E i \in 1..Len(steps) :
          /\ Dispatched(i, "CodeBlock") /\ steps[i].pulled[1].id = 3
          /\ Exhausts(3)
          /\ Input[4].ev = "Text"
          /\ Len(steps) = i + 2
          /\ steps[i + 1].ret = Some(Input[4])
          /\ steps[i + 2].ret = None

\* ---------------------------------------------------------------- C23
\* the events the calls of CodeImageProcessor::next have pulled, in order
RECURSIVE PulledBy(_)
PulledBy(log) == IF log = <<>> THEN <<>> ELSE Head(log).pulled \o PulledBy(Tail(log))

\* every upstream event is pulled once and in order, so the calls pull no
\* more than the stream holds; the number of calls and of emitted events is
\* bounded by the length of the stream
FinitelyMany ==
    /\ pc \notin {"build", "skipped"} => PulledBy(steps) \o iter = Input
    /\ \A i \in 1..Len(steps) : Len(steps[i].pulled) <= Len(Input)
    /\ \A j \in 1..Len(msteps) : Len(msteps[j].got) \in 1..2
    /\ Len(Emitted) <= 2 * Len(Input)
    /\ Len(steps) <= 2 * Len(Input) + 1
    /\ Len(Rendered) <= Len(Emitted)

\* the fold has ended only when both stages returned None, with upstream
\* exhausted and the buffer drained
EndReported ==
    pc = "folded" =>
        /\ iter = <<>> /\ buffer = <<>>
        /\ steps[Len(steps)].ret = None
        /\ msteps[Len(msteps)].ret = None

\* a call with upstream exhausted and the buffer drained returns None from
\* both stages without a pull, and the fold ends
EndStep ==
    (pc = "fold" /\ iter = <<>> /\ buffer = <<>>)
    => /\ pc' = "folded"
       /\ Len(steps') = Len(steps) + 1
       /\ steps'[Len(steps')].pulled = <<>>
       /\ steps'[Len(steps')].ret = None
       /\ msteps'[Len(msteps')].ret = None

\* C23: the fold over the two stages ends for every upstream stream, and the
\* build of the post with it: the calls of next pull each upstream event
\* once, so no call pulls more than the stream holds; calls and emitted
\* events are bounded by the length of the stream; and a call with upstream
\* exhausted and the buffer drained returns None, which ends the fold.
C23_Terminates ==
    /\ FinitelyMany /\ EndReported
    /\ [][FinitelyMany' /\ EndReported' /\ EndStep]_vars
    /\ (pc = "fold") ~> (pc = "folded")
    /\ <>(pc = "written")

\* the fold over a stream of four events has ended after an accumulation
\* that pulled more than one event, a replay and the final None
C23_Witness ==
    /\ pc = "written"
    /\ Len(Input) = 4
    /\ iter = <<>> /\ buffer = <<>>
    /\ \E i \in 1..Len(steps) : Len(steps[i].pulled) >= 2 /\ steps[i].nbuffer = 0
    /\ \E i \in 1..Len(steps) : steps[i].nbuffer > 0
    /\ steps[Len(steps)].ret = None

====
